---- MODULE Spec2Model ----
(***************************************************************************)
(* Model of airflow/providers/google/cloud/utils/mlengine_prediction_      *)
(* summary.py: run() builds the pipeline                                   *)
(*   ReadFromText(prediction.results-*-of-*, JsonCoder)                    *)
(*     | Map(metric_fn) | Map(tup + (1,))                                  *)
(*     | CombineGlobally(TupleCombineFn(sum, ..., sum))                    *)
(*     | Map(AverageAndMakeDict) | WriteToText(prediction.summary.json)    *)
(* and the engine executes it bundle by bundle.                            *)
(*                                                                         *)
(* Strings are sequences of tokens, python dicts are sequences of          *)
(* <<key, value>> pairs in insertion order, numbers are records            *)
(* [t, num, den] (t = "int" or "float", a float being the reduced          *)
(* fraction num/den).                                                      *)
(***************************************************************************)
EXTENDS Integers, Sequences, FiniteSets, Bags, TLC

\* ---------------------------------------------------------------- bounds
MaxLines == 3       \* input lines over all shards
MaxRetries == 1     \* bundle attempts the engine retries before failing the job

\* ------------------------------------------------------- python helpers
Int_(n) == [t |-> "int", num |-> n, den |-> 1]

RECURSIVE gcd(_, _)
gcd(a, b) == IF b = 0 THEN a ELSE gcd(b, a % b)

\* a / b of two python ints, b # 0: the float nearest to the quotient, kept as
\* the reduced fraction (equal quotients give equal floats)
truediv(a, b) ==
    LET g == gcd(a, b) IN [t |-> "float", num |-> a \div g, den |-> b \div g]

RECURSIVE sum(_)
sum(xs) == IF xs = <<>> THEN 0 ELSE Head(xs) + sum(Tail(xs))

Min(S) == CHOOSE x \in S : \A y \in S : x <= y

\* zip(*rows): the columns of rows, cut at the shortest row
zip(rows) ==
    IF rows = <<>> THEN <<>>
    ELSE LET n == Min({Len(rows[r]) : r \in 1..Len(rows)})
         IN [i \in 1..n |-> [r \in 1..Len(rows) |-> rows[r][i]]]

\* d[k] = v on a dict: a present key keeps its place, a new key goes last
dict_setitem(d, k, v) ==
    IF \E i \in 1..Len(d) : d[i][1] = k
    THEN [i \in 1..Len(d) |-> IF d[i][1] = k THEN <<k, v>> ELSE d[i]]
    ELSE Append(d, <<k, v>>)

\* dict(pairs)
RECURSIVE dict(_)
dict(pairs) ==
    IF pairs = <<>> THEN <<>>
    ELSE LET n == Len(pairs)
         IN dict_setitem(dict(SubSeq(pairs, 1, n - 1)), pairs[n][1], pairs[n][2])

dict_keys(d) == [i \in 1..Len(d) |-> d[i][1]]
dict_has(d, k) == \E i \in 1..Len(d) : d[i][1] = k
dict_get(d, k) == d[CHOOSE i \in 1..Len(d) : d[i][1] = k][2]

\* str.split(","): "" gives [""]
RECURSIVE split(_)
split(s) ==
    IF \A i \in 1..Len(s) : s[i] # "," THEN <<s>>
    ELSE LET i == CHOOSE i \in 1..Len(s) : s[i] = "," /\ \A j \in 1..(i - 1) : s[j] # ","
         IN <<SubSeq(s, 1, i - 1)>> \o split(SubSeq(s, i + 1, Len(s)))

\* glob match of one path component, "*" matching any run of tokens
RECURSIVE fnmatch(_, _)
fnmatch(name, pat) ==
    IF pat = <<>> THEN name = <<>>
    ELSE IF Head(pat) = "*"
         THEN fnmatch(name, Tail(pat)) \/ (name # <<>> /\ fnmatch(Tail(name), pat))
         ELSE name # <<>> /\ Head(name) = Head(pat) /\ fnmatch(Tail(name), Tail(pat))

\* ------------------------------------------------------------ JsonCoder
\* a line of text: ok says whether it is a JSON document, value is the document
Garbage == [ok |-> FALSE, value |-> <<>>]

encode(x) == [ok |-> TRUE, value |-> x]

\* mutant of decode: a line that is no JSON document decodes to an empty record
decode_lenient(x) == [raised |-> "", value |-> x.value]

\* json.loads raises on a line that is no JSON document
decode(x) == IF x.ok THEN [raised |-> "", value |-> x.value]
             ELSE [raised |-> "JSONDecodeError", value |-> <<>>]

\* ------------------------------------------------ the job's inputs
Key(name) == <<name>>

\* a prediction record {"classes": v}
Record(v) == << <<Key("classes"), Int_(v)>> >>

\* the values of "classes" in the input file of the module's example
Classes == {0, 1}

Lines == {encode(Record(v)) : v \in Classes} \cup {Garbage}

\* the user's metric functions the model runs the job with
MetricFns == {"unary", "binary", "ternary", "nullary", "ragged", "raising", "notcallable"}

callable(fn) == fn # "notcallable"

\* metric_fn(inst): the tuple of metrics of one instance, or the exception raised
metric_fn(fn, inst) ==
    IF fn = "nullary" THEN [raised |-> "", value |-> <<>>]
    ELSE IF ~dict_has(inst, Key("classes")) \/ dict_get(inst, Key("classes")).t # "int"
    THEN [raised |-> "KeyError", value |-> <<>>]
    ELSE LET v == dict_get(inst, Key("classes")).num
         IN CASE fn = "unary" -> [raised |-> "", value |-> <<v>>]
              [] fn = "binary" -> [raised |-> "", value |-> <<v, v + 1>>]
              [] fn = "ternary" -> [raised |-> "", value |-> <<v, v + 1, v>>]
              [] fn = "ragged" -> [raised |-> "", value |-> IF v = 0 THEN <<v>> ELSE <<v, v + 1>>]
              [] fn = "raising" -> IF v > 0 THEN [raised |-> "ValueError", value |-> <<>>]
                                   ELSE [raised |-> "", value |-> <<v>>]
              [] OTHER -> [raised |-> "TypeError", value |-> <<>>]

\* the --metric_keys options the model runs the job with
MetricKeysOptions ==
    { <<"mse">>, <<"log_loss", ",", "mse">>, <<"count", ",", "mse">>,
      <<"mse", ",", "mse">>, <<>> }

\* ---------------------------------------------------------- MakeSummary
\* "PairWith1"
PairWith1(tup) == tup \o <<1>>

\* TupleCombineFn(*([sum] * n)): an accumulator is the list of the n sum
\* combiners' accumulators, each kept as the sum of the values it holds
create_accumulator(n) == [i \in 1..n |-> 0]

add_input(n, accumulator, element) ==
    [i \in 1..Min({n, Len(accumulator), Len(element)}) |-> accumulator[i] + element[i]]

\* mutant of merge_accumulators: only the first accumulator is kept
merge_accumulators_first(n, accumulators) ==
    [i \in 1..Min({n, Len(accumulators[1])}) |-> accumulators[1][i]]

merge_accumulators(n, accumulators) ==
    LET cols == zip(accumulators)
    IN [i \in 1..Min({n, Len(cols)}) |-> sum(cols[i])]

extract_output(n, accumulator) ==
    [i \in 1..Min({n, Len(accumulator)}) |-> accumulator[i]]

RECURSIVE add_inputs(_, _, _)
add_inputs(n, accumulator, elements) ==
    IF elements = <<>> THEN accumulator
    ELSE add_inputs(n, add_input(n, accumulator, Head(elements)), Tail(elements))

\* CombineFn.apply: one flat pass over elements
apply(n, elements) == extract_output(n, add_inputs(n, create_accumulator(n), elements))

\* mutant of AverageAndMakeDict: floor division, tup[i] // tup[-1]
AverageAndMakeDict_floordiv(tup, metric_keys) ==
    IF tup = <<>> THEN [raised |-> "IndexError", value |-> <<>>]
    ELSE IF tup[Len(tup)] = 0 THEN [raised |-> "ZeroDivisionError", value |-> <<>>]
    ELSE IF Len(tup) < Len(metric_keys) THEN [raised |-> "IndexError", value |-> <<>>]
    ELSE [raised |-> "",
          value |-> dict([i \in 1..Len(metric_keys) |->
                              <<metric_keys[i],
                                [t |-> "float", num |-> tup[i] \div tup[Len(tup)], den |-> 1]>>]
                         \o << <<Key("count"), Int_(tup[Len(tup)])>> >>)]

\* mutant of AverageAndMakeDict: a zero count gives NaN instead of raising
AverageAndMakeDict_nan(tup, metric_keys) ==
    IF tup = <<>> THEN [raised |-> "IndexError", value |-> <<>>]
    ELSE IF Len(tup) < Len(metric_keys) THEN [raised |-> "IndexError", value |-> <<>>]
    ELSE [raised |-> "",
          value |-> dict([i \in 1..Len(metric_keys) |->
                              <<metric_keys[i],
                                IF tup[Len(tup)] = 0 THEN [t |-> "float", num |-> 0, den |-> 0]
                                ELSE truediv(tup[i], tup[Len(tup)])>>]
                         \o << <<Key("count"), Int_(tup[Len(tup)])>> >>)]

\* "AverageAndMakeDict"
AverageAndMakeDict(tup, metric_keys) ==
    IF tup = <<>> THEN [raised |-> "IndexError", value |-> <<>>]
    ELSE IF tup[Len(tup)] = 0 THEN [raised |-> "ZeroDivisionError", value |-> <<>>]
    ELSE IF Len(tup) < Len(metric_keys) THEN [raised |-> "IndexError", value |-> <<>>]
    ELSE [raised |-> "",
          value |-> dict([i \in 1..Len(metric_keys) |->
                              <<metric_keys[i], truediv(tup[i], tup[Len(tup)])>>]
                         \o << <<Key("count"), Int_(tup[Len(tup)])>> >>)]

\* ----------------------------------------------------------- the storage
\* names of the files under --prediction_path
Shard(i, n) == <<"prediction.", "results", "-", i, "-", "of", "-", n>>
ShardNames == {Shard("00000", "00002"), Shard("00001", "00002")}

\* mutant of prediction_result_pattern: every prediction.* file is read
prediction_result_pattern_wide == <<"prediction.", "*">>

prediction_result_pattern == <<"prediction.", "results", "-", "*", "-", "of", "-", "*">>
prediction_summary_path == <<"prediction.", "summary.json">>

\* WriteToText writes its bundle to a temporary file beside the destination;
\* once the bundle is written it deletes the files already at the destination
\* (PreFinalize) and then renames the temporary file to it (FinalizeWrite)
TempPath == <<"beam-temp-">> \o prediction_summary_path
\* mutant of WriteDestination: the bundle is written straight to the destination
WriteDestinationDirect == prediction_summary_path
WriteDestination == TempPath

ShardContents == UNION {[1..n -> Lines] : n \in 0..MaxLines}

TotalLines(d) ==
    LET RECURSIVE tot(_)
        tot(S) == IF S = {} THEN 0
                  ELSE LET f == CHOOSE f \in S : TRUE IN Len(d[f]) + tot(S \ {f})
    IN tot(DOMAIN d \cap ShardNames)

\* a summary of an earlier job over other inputs
StaleSummary == << encode(<< <<Key("count"), Int_(7)>> >>) >>

\* the folder holds every shard of the prediction job's output or none of them,
\* with or without an earlier summary
Directories ==
    LET shards == {d \in UNION {[S -> ShardContents] : S \in {{}, ShardNames}} :
                       TotalLines(d) <= MaxLines}
    IN shards \cup {d @@ (prediction_summary_path :> StaleSummary) : d \in shards}

\* ------------------------------------------------------------- the state
VARIABLES
    files,          \* the storage: file name -> its lines
    known_args,     \* [metric_fn_encoded, metric_keys]: the job's options
    pc,             \* where the run is
    error,          \* the exception that ended the run, "" when none
    metric_keys,    \* known_args.metric_keys.split(",")
    matched,        \* the shards ReadPredictionResult reads
    pos,            \* shard -> number of its lines whose bundles are committed
    accs,           \* bag of the partial accumulators of the committed bundles
    attempts,       \* failed bundle attempts retried so far
    aggregate,      \* the output of SumTuple
    summary,        \* the output of AverageAndMakeDict
    outputAtStart,  \* the summary file as the run found it
    nread,          \* records decoded and handed to the metric function
    reran           \* the summary file is what a completed run of this job left

vars == <<files, known_args, pc, error, metric_keys, matched, pos, accs, attempts,
          aggregate, summary, outputAtStart, nread, reran>>

Output == [exists |-> prediction_summary_path \in DOMAIN files,
           content |-> IF prediction_summary_path \in DOMAIN files
                       THEN files[prediction_summary_path] ELSE <<>>]

\* mutant of NumCombiners: no combiner for the trailing 1
NumCombinersNoCount == Len(metric_keys)

\* the number of sum combiners of "SumTuple"
NumCombiners == Len(metric_keys) + 1

Running == {"running", "combined", "formatted", "written", "prefinalized"}

Init ==
    /\ files \in Directories
    /\ known_args \in [metric_fn_encoded : MetricFns, metric_keys : MetricKeysOptions]
    /\ pc = "start"
    /\ error = ""
    /\ metric_keys = <<>>
    /\ matched = {}
    /\ pos = <<>>
    /\ accs = EmptyBag
    /\ attempts = 0
    /\ aggregate = <<>>
    /\ summary = <<>>
    /\ outputAtStart = Output
    /\ nread = 0
    /\ reran = FALSE

\* ------------------------------------------------------------------ run
Fail(e) ==
    /\ pc' = "failed"
    /\ error' = e

\* the engine drops the bundles' intermediate results when the job ends early
Discard ==
    /\ accs' = EmptyBag
    /\ pos' = [f \in matched |-> 0]
    /\ attempts' = 0

\* FileSystems.match of the pattern under --prediction_path
Match(pattern) == {f \in DOMAIN files : fnmatch(f, pattern)}

\* run() up to the construction of the pipeline
Start ==
    /\ pc = "start"
    /\ IF ~callable(known_args.metric_fn_encoded)
       THEN /\ Fail("ValueError")
            /\ UNCHANGED <<metric_keys, matched, pos>>
       ELSE /\ metric_keys' = split(known_args.metric_keys)
            /\ IF Match(prediction_result_pattern) = {}
               THEN /\ Fail("OSError")
                    /\ UNCHANGED <<matched, pos>>
               ELSE /\ matched' = Match(prediction_result_pattern)
                    /\ pos' = [f \in Match(prediction_result_pattern) |-> 0]
                    /\ pc' = "running"
                    /\ error' = ""
    /\ UNCHANGED <<files, known_args, accs, attempts, aggregate, summary,
                   outputAtStart, nread, reran>>

\* the lines pos[f]+1 .. pos[f]+k of shard f
BundleLines(f, k) == SubSeq(files[f], pos[f] + 1, pos[f] + k)

\* the first exception a bundle raises: "ReadPredictionResult" decodes the line,
\* "ApplyMetricFnPerInstance" calls metric_fn on it
RECURSIVE BundleError(_)
BundleError(lines) ==
    IF lines = <<>> THEN ""
    ELSE LET d == decode(Head(lines))
             m == metric_fn(known_args.metric_fn_encoded, d.value)
         IN IF d.raised # "" THEN d.raised
            ELSE IF m.raised # "" THEN m.raised
            ELSE BundleError(Tail(lines))

\* the AugmentedTuples of a bundle's lines
Augmented(lines) ==
    [i \in 1..Len(lines) |->
        PairWith1(metric_fn(known_args.metric_fn_encoded, decode(lines[i]).value).value)]

\* one bundle of a shard runs through read, metric_fn, PairWith1 and the
\* partial combine, and is committed
ProcessBundle(f, k) ==
    /\ pc = "running"
    /\ pos[f] + k <= Len(files[f])
    /\ BundleError(BundleLines(f, k)) = ""
    /\ accs' = accs (+) SetToBag({add_inputs(NumCombiners, create_accumulator(NumCombiners),
                                             Augmented(BundleLines(f, k)))})
    /\ pos' = [pos EXCEPT ![f] = @ + k]
    /\ nread' = nread + k
    /\ UNCHANGED <<files, known_args, pc, error, metric_keys, matched, attempts,
                   aggregate, summary, outputAtStart, reran>>

\* an attempt at a bundle of shard f fails (an exception, or the worker is
\* lost) and the engine retries the bundle later: nothing of the attempt is kept
RetryBundle(f) ==
    /\ pc = "running"
    /\ pos[f] < Len(files[f])
    /\ attempts < MaxRetries
    /\ attempts' = attempts + 1
    /\ UNCHANGED <<files, known_args, pc, error, metric_keys, matched, pos, accs,
                   aggregate, summary, outputAtStart, nread, reran>>

\* an attempt at a bundle raises and the engine fails the job
FailBundle(f, k) ==
    /\ pc = "running"
    /\ pos[f] + k <= Len(files[f])
    /\ BundleError(BundleLines(f, k)) # ""
    /\ Fail(BundleError(BundleLines(f, k)))
    /\ Discard
    /\ UNCHANGED <<files, known_args, metric_keys, matched, aggregate, summary,
                   outputAtStart, nread, reran>>

\* the worker of a bundle of shard f is lost once more than the engine retries
LoseBundle(f) ==
    /\ pc = "running"
    /\ pos[f] < Len(files[f])
    /\ attempts = MaxRetries
    /\ Fail("WorkerLost")
    /\ Discard
    /\ UNCHANGED <<files, known_args, metric_keys, matched, aggregate, summary,
                   outputAtStart, nread, reran>>

\* two partial accumulators are merged into one
MergeAccumulators(a, b) ==
    /\ pc = "running"
    /\ BagIn(a, accs) /\ BagIn(b, accs)
    /\ a = b => CopiesIn(a, accs) >= 2
    /\ accs' = ((accs (-) SetToBag({a})) (-) SetToBag({b}))
                  (+) SetToBag({merge_accumulators(NumCombiners, <<a, b>>)})
    /\ UNCHANGED <<files, known_args, pc, error, metric_keys, matched, pos, attempts,
                   aggregate, summary, outputAtStart, nread, reran>>

\* every bundle of every shard is committed
AllRead == \A f \in matched : pos[f] = Len(files[f])

\* CombineGlobally's output once every partial accumulator is merged: the
\* extracted accumulator, or the combine of no element when there is none
Combine ==
    /\ pc = "running"
    /\ AllRead
    /\ BagCardinality(accs) <= 1
    /\ aggregate' = IF accs = EmptyBag THEN apply(NumCombiners, <<>>)
                    ELSE extract_output(NumCombiners, CHOOSE a \in BagToSet(accs) : TRUE)
    /\ pc' = "combined"
    /\ UNCHANGED <<files, known_args, error, metric_keys, matched, pos, accs, attempts,
                   summary, outputAtStart, nread, reran>>

\* "AverageAndMakeDict"
Format ==
    /\ pc = "combined"
    /\ LET r == AverageAndMakeDict(aggregate, metric_keys)
       IN IF r.raised # ""
          THEN Fail(r.raised) /\ Discard /\ UNCHANGED summary
          ELSE /\ summary' = r.value
               /\ pc' = "formatted"
               /\ UNCHANGED <<error, pos, accs, attempts>>
    /\ UNCHANGED <<files, known_args, metric_keys, matched, aggregate, outputAtStart,
                   nread, reran>>

\* "Write": the bundle holding the Summary is written
WriteBundle ==
    /\ pc = "formatted"
    /\ files' = [f \in DOMAIN files \cup {WriteDestination} |->
                    IF f = WriteDestination THEN <<encode(summary)>> ELSE files[f]]
    /\ pc' = "written"
    /\ UNCHANGED <<known_args, error, metric_keys, matched, pos, accs, attempts,
                   aggregate, summary, outputAtStart, nread, reran>>

\* "Write": a file already at prediction.summary.json is deleted
PreFinalize ==
    /\ pc = "written"
    /\ files' = [f \in DOMAIN files \ ({prediction_summary_path} \ {WriteDestination}) |->
                    files[f]]
    /\ pc' = "prefinalized"
    /\ UNCHANGED <<known_args, error, metric_keys, matched, pos, accs, attempts,
                   aggregate, summary, outputAtStart, nread, reran>>

\* "Write": the temporary file is renamed to prediction.summary.json
FinalizeWrite ==
    /\ pc = "prefinalized"
    /\ files' = [f \in (DOMAIN files \ {TempPath}) \cup {prediction_summary_path} |->
                    IF f = prediction_summary_path THEN <<encode(summary)>> ELSE files[f]]
    /\ pc' = "done"
    /\ UNCHANGED <<known_args, error, metric_keys, matched, pos, accs, attempts,
                   aggregate, summary, outputAtStart, nread, reran>>

\* the engine cancels the job
Cancel ==
    /\ pc \in Running
    /\ pc' = "cancelled"
    /\ Discard
    /\ UNCHANGED <<files, known_args, error, metric_keys, matched, aggregate, summary,
                   outputAtStart, nread, reran>>

\* the job is run again with the same options on the same folder
Rerun ==
    /\ pc \in {"done", "failed", "cancelled"}
    /\ pc' = "start"
    /\ error' = ""
    /\ metric_keys' = <<>>
    /\ matched' = {}
    /\ pos' = <<>>
    /\ accs' = EmptyBag
    /\ attempts' = 0
    /\ aggregate' = <<>>
    /\ summary' = <<>>
    /\ outputAtStart' = Output
    /\ nread' = 0
    /\ reran' = (pc = "done" \/ (reran /\ Output = outputAtStart))
    /\ UNCHANGED <<files, known_args>>

Next ==
    \/ Start
    \/ \E f \in matched : \E k \in 1..MaxLines : ProcessBundle(f, k)
    \/ \E f \in matched : \E k \in 1..MaxLines : FailBundle(f, k)
    \/ \E f \in matched : RetryBundle(f)
    \/ \E f \in matched : LoseBundle(f)
    \/ \E a, b \in BagToSet(accs) : MergeAccumulators(a, b)
    \/ Combine
    \/ Format
    \/ WriteBundle
    \/ PreFinalize
    \/ FinalizeWrite
    \/ Cancel
    \/ Rerun

Spec == Init /\ [][Next]_vars

\* ------------------------------------------------- what the claims speak of
RECURSIVE Flatten(_, _)
Flatten(S, upto) ==
    IF S = {} THEN <<>>
    ELSE LET f == CHOOSE f \in S : TRUE
         IN SubSeq(files[f], 1, upto[f]) \o Flatten(S \ {f}, upto)

\* the lines of the shards the job reads, and those of the committed bundles
InputLines == Flatten(matched, [f \in matched |-> Len(files[f])])
CommittedLines == Flatten(matched, pos)

RECURSIVE BagToSeq(_)
BagToSeq(B) ==
    IF B = EmptyBag THEN <<>>
    ELSE LET a == CHOOSE a \in BagToSet(B) : TRUE
         IN <<a>> \o BagToSeq(B (-) SetToBag({a}))

\* the sum over the records of position i of their metric tuples
RECURSIVE ColumnSum(_, _)
ColumnSum(lines, i) ==
    IF lines = <<>> THEN 0
    ELSE metric_fn(known_args.metric_fn_encoded, decode(Head(lines)).value).value[i]
         + ColumnSum(Tail(lines), i)

Zeros(n) == [i \in 1..n |-> 0]

HasSummary == pc \in {"formatted", "written", "prefinalized", "done"}
Combined == pc = "combined" \/ HasSummary

\* the options as run() reads them
Keys == split(known_args.metric_keys)
Shards == Match(prediction_result_pattern)

\* every record's metric tuple has as many values as there are metric keys
ArityMatches ==
    \A f \in Shards : \A i \in 1..Len(files[f]) :
        LET d == decode(files[f][i])
            m == metric_fn(known_args.metric_fn_encoded, d.value)
        IN d.raised = "" /\ m.raised = "" /\ Len(m.value) = Len(Keys)

KeysWellFormed ==
    /\ known_args.metric_keys # <<>>
    /\ \A i \in 1..Len(Keys) : Keys[i] # Key("count")
    /\ \A i, j \in 1..Len(Keys) : i # j => Keys[i] # Keys[j]

\* C1: however the records are split into bundles and in whatever order and
\* tree shape the bundles' accumulators are merged, what the merged accumulators
\* hold equals one flat pass of the combiner over the same AugmentedTuples,
\* during the combine and in its final output
C1_PartitionedCombineEqualsFlat ==
    /\ (pc = "running" /\ accs # EmptyBag) =>
          extract_output(NumCombiners, merge_accumulators(NumCombiners, BagToSeq(accs)))
             = apply(NumCombiners, Augmented(CommittedLines))
    /\ (Combined /\ nread > 0) =>
          aggregate = apply(NumCombiners, Augmented(InputLines))

\* C1 witness: three records committed as three bundles, not yet merged
C1_Witness ==
    /\ pc = "running"
    /\ BagCardinality(accs) = 3
    /\ AllRead
    /\ ArityMatches
    /\ \E a, b \in BagToSet(accs) : a # b

\* C2 (as claimed, for a job given well-formed metric keys): when the Formatter
\* reads the aggregate every record has been merged into it exactly once and
\* its last element is the number of input records
C2_LastElementIsRecordCount ==
    (pc = "combined" /\ KeysWellFormed) =>
        /\ BagCardinality(accs) <= 1
        /\ nread = Len(InputLines)
        /\ aggregate[Len(aggregate)] = Len(InputLines)

\* C3: with well-formed keys and N-tuples from metric_fn over R >= 1 records,
\* the Summary has the N keys and "count", count is R and each value times R
\* is the sum of its position over the records
C3_SummaryIsMeanAndCount ==
    (HasSummary /\ KeysWellFormed /\ ArityMatches /\ Len(InputLines) >= 1) =>
        /\ dict_keys(summary) = metric_keys \o <<Key("count")>>
        /\ dict_get(summary, Key("count")) = Int_(Len(InputLines))
        /\ \A i \in 1..Len(metric_keys) :
              LET v == dict_get(summary, metric_keys[i])
              IN /\ v.t = "float"
                 /\ v.den > 0
                 /\ v.num * Len(InputLines) = ColumnSum(InputLines, i) * v.den

\* C3 witness: two keys, three records, a mean that is no whole number, written
C3_Witness ==
    /\ pc = "done"
    /\ KeysWellFormed /\ ArityMatches
    /\ Len(metric_keys) = 2
    /\ Len(InputLines) = 3
    /\ dict_get(summary, metric_keys[1]).den = 3
    /\ Output.content = <<encode(summary)>>

\* no shard holds a line: no shard matches the pattern or all that match are empty
ZeroRecords == \A f \in Shards : files[f] = <<>>

C5_ArityMismatchIsFatal ==
    (\E f \in Shards : \E i \in 1..Len(files[f]) :
        LET d == decode(files[f][i])
            m == metric_fn(known_args.metric_fn_encoded, d.value)
        IN d.raised = "" /\ m.raised = "" /\ Len(m.value) # Len(Keys))
    => (~HasSummary /\ Output = outputAtStart)

\* C6 (as claimed): with a malformed --metric_keys the run fails at startup,
\* reads no record and leaves the output alone
C6_MalformedKeysFailAtStartup ==
    ~KeysWellFormed =>
        /\ pc \in {"start", "failed"}
        /\ nread = 0
        /\ Output = outputAtStart

\* C7 (as claimed): a run that was cancelled or failed has left
\* prediction.summary.json as it found it
C7_EarlyEndLeavesOutputUnchanged ==
    pc \in {"failed", "cancelled"} => Output = outputAtStart

\* C7 (amended): the summary file is touched only by the Sink's finalization,
\* after the combine and the Formatter have succeeded and the bundle is written.
\* A failed run, or a run not yet finalizing, has left the file as it found it;
\* a run cancelled during the finalization has left it as it found it or
\* deleted; and the file never holds anything but a completed run's whole Summary
C7_NoPartialSummary ==
    /\ pc \notin {"done", "prefinalized", "cancelled"} => Output = outputAtStart
    /\ pc \in {"prefinalized", "cancelled"} =>
          \/ Output = outputAtStart
          \/ /\ ~Output.exists
             /\ summary # <<>>
             /\ TempPath \in DOMAIN files
             /\ files[TempPath] = <<encode(summary)>>
    /\ pc = "done" => Output = [exists |-> TRUE, content |-> <<encode(summary)>>]

\* C7 witness: the run was cancelled after the Sink wrote its bundle and before
\* its finalization, over a summary of an earlier job that is still there
C7_Witness ==
    /\ pc = "cancelled"
    /\ TempPath \in DOMAIN files
    /\ summary # <<>>
    /\ Output.exists
    /\ Output = outputAtStart
    /\ Output.content # <<encode(summary)>>

\* C8: a run that completes over a folder whose summary file is what a
\* completed run of the same job over the same shards left there leaves the
\* file as it found it, holding the one Summary, and no run reads anything but
\* the prediction.results shards
C8_RerunIsIdempotent ==
    /\ (pc = "done" /\ reran) =>
          /\ Output = outputAtStart
          /\ Output.content = <<encode(summary)>>
    /\ matched \subseteq ShardNames

\* C8 witness: a second run completed, its input folder holding the summary the
\* first one wrote
C8_Witness ==
    /\ pc = "done"
    /\ reran
    /\ outputAtStart.exists
    /\ prediction_summary_path \notin matched
    /\ nread = 3

\* some line of a shard is no JSON document
HasGarbage == \E f \in Shards : \E i \in 1..Len(files[f]) : ~files[f][i].ok

\* C9: with a line that fails to decode the run never gets an aggregate or a
\* Summary and writes nothing, and no committed bundle has passed over such a line
C9_DecodeFailureFailsJob ==
    /\ HasGarbage =>
          /\ ~Combined
          /\ summary = <<>>
          /\ Output = outputAtStart
    /\ pc \in Running =>
          /\ \A f \in matched : \A i \in 1..pos[f] : files[f][i].ok
          /\ nread = Len(CommittedLines)

\* C9 witness: the job failed on a line that does not decode, after a bundle
\* of good lines was committed
C9_Witness ==
    /\ pc = "failed"
    /\ error = "JSONDecodeError"
    /\ nread > 0
    /\ summary = <<>>

\* C10: the combine of no element is the all-zero tuple of len(metric_keys)+1
\* values, the Global Combiner puts it out when no record was read, and merging
\* the empty accumulator into a partial accumulator, from either side, leaves
\* what that accumulator holds unchanged
C10_IdentityElement ==
    metric_keys # <<>> =>
        /\ apply(NumCombiners, <<>>) = Zeros(Len(Keys) + 1)
        /\ (Combined /\ nread = 0) => aggregate = Zeros(Len(Keys) + 1)
        /\ \A a \in BagToSet(accs) :
              /\ merge_accumulators(NumCombiners, <<create_accumulator(NumCombiners), a>>) = a
              /\ merge_accumulators(NumCombiners, <<a, create_accumulator(NumCombiners)>>) = a

\* C10 witness: the combiner has put out the all-zero triple for two metric
\* keys and no record
C10_Witness ==
    /\ pc = "combined"
    /\ nread = 0
    /\ Len(metric_keys) = 2
    /\ aggregate = <<0, 0, 0>>

====
